---- MODULE Spec2Model ----
(***************************************************************************)
(* Model of bleuart (src/bleuart.py): a serial-port style facade over a    *)
(* BLE peripheral exposing the Nordic UART Service through a pygatt BGAPI  *)
(* adapter.                                                                *)
(*                                                                         *)
(* The instance's fields are the variables.  Every method is an operator   *)
(* from an instance record to the instance record after the call, and one  *)
(* action per public operation applies it.  The transport (the pygatt      *)
(* backend and device objects) is the environment: each of its calls may   *)
(* raise, the calls that raise during one operation being the set F the    *)
(* action draws.                                                           *)
(***************************************************************************)
EXTENDS Integers, Sequences, FiniteSets, TLC

---------------------------------------------------------------------------
(* Bounds *)

\* notifications the transport delivers in one behaviour
MaxSent == 3

\* length of the longest list a transport scan returns
MaxDevices == 2

\* transport calls that may raise during one operation
MaxFaults == 1

---------------------------------------------------------------------------
(* Values *)

NoName == "NoName"
NoAddr == "NoAddr"
\* a returned value is a sequence: empty for None, <<v>> for the chunk v, the
\* list itself for a device list
NoValue == <<>>
NoError == "NoError"

Names == {"n1", "n2"}
\* the addresses of the peripherals in range, and one of a peripheral that
\* is not: a connect to it times out
Addrs == {"a1", "a2"}
Unreachable == "a3"
\* the chunk of the k-th notification is k: every chunk is told from every
\* other, and a smaller one was received earlier
Chunks == 1..MaxSent
Modes == {"r", "w", "rw"}

\* the two protocol constants and one characteristic that is neither
NUS_TX == "NUS_TX"
NUS_RX == "NUS_RX"
OtherChar == "BATTERY"

\* characteristics each peripheral exposes: a1 runs the UART service, a2
\* does not
DeviceChars(a) == IF a = "a1" THEN {NUS_TX, NUS_RX} ELSE {OtherChar}

Descriptors == [name : Names, address : Addrs]

RECURSIVE SeqsUpTo(_, _)
SeqsUpTo(S, n) ==
    IF n = 0 THEN {<<>>}
    ELSE LET shorter == SeqsUpTo(S, n - 1)
         IN  shorter \cup {Append(q, x) : q \in {r \in shorter : Len(r) = n - 1}, x \in S}

ScanResults == SeqsUpTo(Descriptors, MaxDevices)

\* the peripherals in range of the adapter: two of the same name, the first
\* of them running the UART service
Nearby == <<[name |-> "n1", address |-> "a1"], [name |-> "n1", address |-> "a2"]>>

\* what connect is called with: nothing, a name, an address, or both (the
\* address then decides and the name is only kept)
ConnectTargets ==
    {<<NoName, NoAddr>>, <<"n1", "a2">>}
        \cup {<<n, NoAddr>> : n \in Names}
        \cup {<<NoName, a>> : a \in Addrs \cup {Unreachable}}

TransportOps ==
    {"start", "stop", "scan", "connect", "get_handle", "subscribe_TX",
     "subscribe_RX", "discover_characteristics", "unsubscribe_TX",
     "unsubscribe_RX", "disconnect"}

FaultSets(ops) == {F \in SUBSET ops : Cardinality(F) <= MaxFaults}

\* 'r' in mode, 'w' in mode
HasR(mode) == mode \in {"r", "rw"}
HasW(mode) == mode \in {"w", "rw"}

---------------------------------------------------------------------------
(* State *)

VARIABLES
    started,      \* self._started
    connected,    \* self._connected
    subTX,        \* self._subscribed_NUS_TX
    subRX,        \* self._subscribed_NUS_RX
    devices,      \* self._devices
    chars,        \* self._Characteristics
    device,       \* self._device: the address its device object stands for
    buffer,       \* self._buffer, Python index 0 is index 1
    nearby,       \* transport: the descriptors a scan finds
    running,      \* transport: the adapter is started
    links,        \* transport: addresses with an open connection
    notifying,    \* transport: addresses delivering TX notifications
    sent,         \* transport: notifications delivered so far
    received,     \* chunks _receive was given since the buffer was last empty by
                  \* construction or reset_input_buffer
    returned,     \* chunks read and readline returned since then
    lastOp,       \* the operation called last
    error,        \* the error it raised, NoError when it returned
    ret,          \* the value it returned
    calls,        \* the transport calls it issued
    cold,         \* those of them issued while the adapter was not running
    dialed,       \* the address it passed to the transport connect
    faults,       \* the transport calls it issued that raised on their own
    pc,           \* where the control thread is inside read or readline, and
                  \* the buffer length its test saw
    args          \* the name, address and mode a connect was called with

vars == <<started, connected, subTX, subRX, devices, chars, device, buffer,
          nearby, running, links, notifying, sent, received, returned, lastOp,
          error, ret, calls, cold, dialed, faults, pc, args>>

\* all of them but the control thread's position
rest == <<started, connected, subTX, subRX, devices, chars, device, buffer,
          nearby, running, links, notifying, sent, received, returned, lastOp,
          error, ret, calls, cold, dialed, faults, args>>

\* the control thread is inside no operation
Idle == [at |-> "idle", saw |-> 0]

\* the arguments of an operation that takes none
NoArgs == [name |-> NoName, address |-> NoAddr, mode |-> "-"]

\* The instance and the transport at the start of an operation.  self.name
\* and self._address are read only by connect and _get_address, after connect
\* has assigned both (lines 114-115), and by the log line of disconnect: what
\* they hold between two operations decides nothing, and they are carried in
\* the record of the call, not in the state.
Self ==
    [started |-> started, connected |-> connected, subTX |-> subTX,
     subRX |-> subRX, devices |-> devices, chars |-> chars, name |-> NoName,
     address |-> NoAddr, device |-> device, buffer |-> buffer,
     nearby |-> nearby, running |-> running, links |-> links,
     notifying |-> notifying, sent |-> sent, received |-> received,
     returned |-> returned,
     exc |-> NoError, calls |-> {}, cold |-> {}, dialed |-> NoAddr,
     faults |-> {}, pc |-> pc]

\* the state an operation leaves
Commit(s, op, value, a) ==
    /\ started' = s.started
    /\ connected' = s.connected
    /\ subTX' = s.subTX
    /\ subRX' = s.subRX
    /\ devices' = s.devices
    /\ chars' = s.chars
    /\ device' = s.device
    /\ buffer' = s.buffer
    /\ nearby' = s.nearby
    /\ running' = s.running
    /\ links' = s.links
    /\ notifying' = s.notifying
    /\ sent' = s.sent
    /\ received' = s.received
    /\ returned' = s.returned
    /\ lastOp' = op
    /\ error' = s.exc
    /\ ret' = IF s.exc = NoError THEN value ELSE NoValue
    /\ calls' = s.calls
    /\ cold' = s.cold
    /\ dialed' = s.dialed
    /\ faults' = s.faults
    /\ pc' = s.pc
    /\ args' = a

Init ==
    /\ started = FALSE
    /\ connected = FALSE
    /\ subTX = FALSE
    /\ subRX = FALSE
    /\ devices = <<>>
    /\ chars = {}
    /\ device = NoAddr
    /\ buffer = <<>>
    /\ nearby = Nearby
    /\ running = FALSE
    /\ links = {}
    /\ notifying = {}
    /\ sent = 0
    /\ received = 0
    /\ returned = 0
    /\ lastOp = "init"
    /\ error = NoError
    /\ ret = NoValue
    /\ calls = {}
    /\ cold = {}
    /\ dialed = NoAddr
    /\ faults = {}
    /\ pc = Idle
    /\ args = NoArgs

---------------------------------------------------------------------------
(* Transport calls.  Each records that it was issued; it raises when it is *)
(* in F or when what it needs is missing (the adapter is not running, the  *)
(* device object has no open connection, the characteristic is not on the  *)
(* device), and has its effect on the transport otherwise.                 *)

Issue(s, op) ==
    [s EXCEPT !.calls = @ \cup {op},
              !.cold = IF s.running THEN @ ELSE @ \cup {op}]

Raise(s, kind) == [s EXCEPT !.exc = kind]

TransportError == "TransportError"

AdapterUp(s) == s.running

DeviceUp(s) == s.running /\ s.device \in s.links

\* self._adapter.start()
adapter_start(s, F) ==
    IF "start" \in F
    THEN Raise(Issue(s, "start"), TransportError)
    ELSE [Issue(s, "start") EXCEPT !.running = TRUE]

\* self._adapter.stop()
adapter_stop(s, F) ==
    IF "stop" \in F
    THEN Raise(Issue(s, "stop"), TransportError)
    ELSE [Issue(s, "stop") EXCEPT !.running = FALSE, !.links = {},
                                  !.notifying = {}]

\* self._adapter.scan(...)
adapter_scan(s, F) ==
    IF "scan" \in F \/ ~AdapterUp(s)
    THEN Raise(Issue(s, "scan"), TransportError)
    ELSE [Issue(s, "scan") EXCEPT !.devices = s.nearby]

\* self._adapter.connect(self._address, ...)
adapter_connect(s, F) ==
    LET t == [Issue(s, "connect") EXCEPT !.dialed = s.address]
    IN  IF "connect" \in F \/ ~AdapterUp(s) \/ s.address \notin Addrs
        THEN Raise(t, TransportError)
        ELSE [t EXCEPT !.device = s.address, !.links = @ \cup {s.address}]

\* self._device.get_rssi(), self._device.get_handle(...)
device_get_handle(s, F) ==
    IF "get_handle" \in F \/ ~DeviceUp(s)
    THEN Raise(Issue(s, "get_handle"), TransportError)
    ELSE Issue(s, "get_handle")

\* self._device.subscribe(self._NUS_TX, callback=self._receive)
device_subscribe_TX(s, F) ==
    IF "subscribe_TX" \in F \/ ~DeviceUp(s) \/ NUS_TX \notin DeviceChars(s.device)
    THEN Raise(Issue(s, "subscribe_TX"), TransportError)
    ELSE [Issue(s, "subscribe_TX") EXCEPT !.notifying = @ \cup {s.device}]

\* self._device.subscribe(self._NUS_RX)
device_subscribe_RX(s, F) ==
    IF "subscribe_RX" \in F \/ ~DeviceUp(s) \/ NUS_RX \notin DeviceChars(s.device)
    THEN Raise(Issue(s, "subscribe_RX"), TransportError)
    ELSE Issue(s, "subscribe_RX")

\* self._device.discover_characteristics()
device_discover_characteristics(s, F) ==
    IF "discover_characteristics" \in F \/ ~DeviceUp(s)
    THEN Raise(Issue(s, "discover_characteristics"), TransportError)
    ELSE [Issue(s, "discover_characteristics") EXCEPT
              !.chars = DeviceChars(s.device)]

\* self._device.unsubscribe(self._NUS_TX)
device_unsubscribe_TX(s, F) ==
    IF "unsubscribe_TX" \in F \/ ~DeviceUp(s)
    THEN Raise(Issue(s, "unsubscribe_TX"), TransportError)
    ELSE [Issue(s, "unsubscribe_TX") EXCEPT !.notifying = @ \ {s.device}]

\* self._device.unsubscribe(self._NUS_RX)
device_unsubscribe_RX(s, F) ==
    IF "unsubscribe_RX" \in F \/ ~DeviceUp(s)
    THEN Raise(Issue(s, "unsubscribe_RX"), TransportError)
    ELSE Issue(s, "unsubscribe_RX")

\* self._device.disconnect()
device_disconnect(s, F) ==
    IF "disconnect" \in F \/ ~DeviceUp(s)
    THEN Raise(Issue(s, "disconnect"), TransportError)
    ELSE [Issue(s, "disconnect") EXCEPT !.links = @ \ {s.device},
                                        !.notifying = @ \ {s.device}]

---------------------------------------------------------------------------
(* Methods.  Each goes on from the record the call before left, and stops  *)
(* at the first call that leaves an exception in it.                       *)

Raised(s) == s.exc # NoError

\* an except clause has caught the exception
Caught(s) == [s EXCEPT !.exc = NoError]

\* a start that marks the adapter started before the transport answers
_startMarking(s, F) ==
    IF s.started THEN s
    ELSE Caught([adapter_start(s, F) EXCEPT !.started = TRUE])

\* try: adapter.start()  except: log  else: _started = True
_start(s, F) ==
    IF s.started THEN s
    ELSE LET t == adapter_start(s, F)
         IN  IF Raised(t) THEN Caught(t) ELSE [t EXCEPT !.started = TRUE]

\* if _started: adapter.stop(); _started = False
_stop(s, F) ==
    IF ~s.started THEN s
    ELSE LET t == adapter_stop(s, F)
         IN  IF Raised(t) THEN t ELSE [t EXCEPT !.started = FALSE]

\* the internal scan: start if needed, scan if nothing is cached
_scan(s, F) ==
    LET t == IF ~s.started THEN _start(s, F) ELSE s
    IN  IF t.devices = <<>> THEN adapter_scan(t, F) ELSE t

\* a scan that asks the transport every time
scanAgain(s, F) ==
    LET t == IF ~s.started THEN _start(s, F) ELSE s
    IN  adapter_scan(t, F)

\* the public scan has the same steps and returns the list
scan(s, F) ==
    LET t == IF ~s.started THEN _start(s, F) ELSE s
    IN  IF t.devices = <<>> THEN adapter_scan(t, F) ELSE t

\* list(filter(lambda device: device['name'] == self.name, self._devices))
MatchName(devs, n) ==
    LET Same(d) == d.name = n
    IN  SelectSeq(devs, Same)

\* a lookup that settles on the last match
PickLast(matches) == matches[Len(matches)]

\* the device the lookup settles on: element [0] of the filtered list
PickMatch(matches) == matches[1]

\* the except branch of _get_address: [0] raised IndexError
NotFound(s, F) ==
    LET u == _stop(s, F)
    IN  IF Raised(u) THEN u
        ELSE Raise([u EXCEPT !.started = FALSE], "DeviceNotFound")

_get_address(s, F) ==
    IF s.address # NoAddr THEN s
    ELSE LET t == IF s.devices = <<>> THEN _scan(s, F) ELSE s
             matches == MatchName(t.devices, t.name)
         IN  IF Raised(t) THEN t
             ELSE IF matches = <<>> THEN NotFound(t, F)
             ELSE [t EXCEPT !.address = PickMatch(matches).address]

\* the error a failed subscribe is diagnosed as: the for/else over the cache
Diagnose(cache, ch) ==
    IF ch \in cache THEN "SubscriptionFailed" ELSE "ChannelUnavailable"

\* the flags the except branch clears before it calls _stop
MarkFailed(s, ch) ==
    [s EXCEPT !.subTX = IF ch = NUS_TX THEN FALSE ELSE @,
              !.subRX = IF ch = NUS_RX THEN FALSE ELSE @,
              !.connected = FALSE,
              !.started = FALSE]

\* the except branch of both subscribe methods, ch the channel's identifier
SubscribeFailed(s, F, ch) ==
    LET t == IF s.chars = {}
             THEN device_discover_characteristics(Caught(s), F)
             ELSE Caught(s)
        w == _stop(MarkFailed(t, ch), F)
    IN  IF Raised(t) THEN t
        ELSE IF Raised(w) THEN w
        ELSE Raise(w, Diagnose(t.chars, ch))

_subscribe_NUS_TX(s, F) ==
    LET t == device_subscribe_TX(s, F)
    IN  IF Raised(t) THEN SubscribeFailed(t, F, NUS_TX)
        ELSE [t EXCEPT !.subTX = TRUE]

_subscribe_NUS_RX(s, F) ==
    LET t == device_subscribe_RX(s, F)
    IN  IF Raised(t) THEN SubscribeFailed(t, F, NUS_RX)
        ELSE [t EXCEPT !.subRX = TRUE]

\* the except branch of connect
ConnectFailed(s, F) ==
    LET u == _stop([Caught(s) EXCEPT !.connected = FALSE], F)
    IN  IF Raised(u) THEN u
        ELSE Raise([u EXCEPT !.started = FALSE], "ConnectionFailed")

\* an else branch that starts the new connection on an empty buffer
ConnectSucceededFlushing(s, F, m) ==
    LET t == device_get_handle([s EXCEPT !.connected = TRUE,
                                         !.buffer = <<>>], F)
        u == IF HasR(m) THEN _subscribe_NUS_TX(t, F) ELSE t
    IN  IF Raised(t) THEN t
        ELSE IF Raised(u) THEN u
        ELSE IF HasW(m) THEN _subscribe_NUS_RX(u, F) ELSE u

\* the else branch of connect
ConnectSucceeded(s, F, m) ==
    LET t == device_get_handle([s EXCEPT !.connected = TRUE], F)
        u == IF HasR(m) THEN _subscribe_NUS_TX(t, F) ELSE t
    IN  IF Raised(t) THEN t
        ELSE IF Raised(u) THEN u
        ELSE IF HasW(m) THEN _subscribe_NUS_RX(u, F) ELSE u

connect(s, n, a, m, F) ==
    LET t == IF ~s.started THEN _start(s, F) ELSE s
        u == _get_address([t EXCEPT !.name = n, !.address = a], F)
        v == adapter_connect(u, F)
    IN  IF n = NoName /\ a = NoAddr THEN Raise(t, "InvalidArgument")
        ELSE IF Raised(u) THEN u
        ELSE IF Raised(v) THEN ConnectFailed(v, F)
        ELSE ConnectSucceeded(v, F, m)

disconnect(s, F) ==
    IF ~s.connected THEN s
    ELSE device_disconnect([s EXCEPT !.connected = FALSE], F)

\* the 'r' half of _unsubscribe
UnsubscribeTX(s, F) ==
    IF ~s.subTX THEN s
    ELSE LET x == device_unsubscribe_TX(s, F)
         IN  IF Raised(x) THEN Caught(x) ELSE [x EXCEPT !.subTX = FALSE]

\* the 'w' half of _unsubscribe
UnsubscribeRX(s, F) ==
    IF ~s.subRX THEN s
    ELSE LET y == device_unsubscribe_RX(s, F)
         IN  IF Raised(y) THEN Caught(y) ELSE [y EXCEPT !.subRX = FALSE]

\* _unsubscribe with its default mode 'rw', the only way it is called
_unsubscribe(s, F) == UnsubscribeRX(UnsubscribeTX(s, F), F)

close(s, F) ==
    LET u == disconnect(_unsubscribe(s, F), F)
    IN  IF Raised(u) THEN u ELSE _stop(u, F)

\* a callback that keeps only the chunk it was given
_receiveLatest(buf, value) == <<value>>

\* self._buffer.insert(0, value)
_receive(buf, value) == <<value>> \o buf

\* a read that pops index 0, the end _receive inserts at
readFront(buf) ==
    IF buf = <<>> THEN [value |-> NoValue, buffer |-> buf]
    ELSE [value |-> <<buf[1]>>, buffer |-> Tail(buf)]

\* self._buffer.pop(): the value read and the buffer left
read(buf) ==
    IF buf = <<>> THEN [value |-> NoValue, buffer |-> buf]
    ELSE [value |-> <<buf[Len(buf)]>>,
          buffer |-> SubSeq(buf, 1, Len(buf) - 1)]

\* a readline that returns the chunk and leaves it in the buffer
readlinePeek(buf) ==
    IF buf = <<>> THEN [value |-> NoValue, buffer |-> buf]
    ELSE [value |-> <<buf[Len(buf)]>>, buffer |-> buf]

\* readline has the body of read; max_reads is not used
readline(buf) ==
    IF buf = <<>> THEN [value |-> NoValue, buffer |-> buf]
    ELSE [value |-> <<buf[Len(buf)]>>,
          buffer |-> SubSeq(buf, 1, Len(buf) - 1)]

inWaiting(buf) == Len(buf)

\* 'if self._buffer': the test read and readline begin with
Truthy(buf) == buf # <<>>

\* list.pop(): the last element and the list without it, IndexError on an
\* empty list
pop(buf) ==
    IF buf = <<>>
    THEN [value |-> NoValue, buffer |-> buf, exc |-> "IndexError"]
    ELSE [value |-> <<buf[Len(buf)]>>,
          buffer |-> SubSeq(buf, 1, Len(buf) - 1),
          exc |-> NoError]

reset_input_buffer(buf) == <<>>

---------------------------------------------------------------------------
(* Actions: one call of a public operation, or one notification *)

StartOps == {"start"}
StopOps == {"stop"}
ScanOps == {"start", "scan"}
ConnectOps == {"start", "stop", "scan", "connect", "get_handle",
               "subscribe_TX", "subscribe_RX", "discover_characteristics"}
DisconnectOps == {"disconnect"}
CloseOps == {"unsubscribe_TX", "unsubscribe_RX", "disconnect", "stop"}

\* F is the set of calls that raise for a reason of the transport's own: only
\* a call that is issued can raise
Raising(s, F) == F \subseteq s.calls

\* one call of an operation that talks to the transport
Call(s, F, op, value, a) ==
    /\ pc = Idle
    /\ Raising(s, F)
    /\ Commit([s EXCEPT !.faults = F], op, value, a)

Start == \E F \in FaultSets(StartOps) : Call(_start(Self, F), F, "start", NoValue, NoArgs)

Stop == \E F \in FaultSets(StopOps) : Call(_stop(Self, F), F, "stop", NoValue, NoArgs)

ScanDone(s, F) == Call(s, F, "scan", s.devices, NoArgs)

Scan == \E F \in FaultSets(ScanOps) : ScanDone(scan(Self, F), F)

ConnectTo(targets) ==
    \E target \in targets, m \in Modes, F \in FaultSets(ConnectOps) :
        Call(connect(Self, target[1], target[2], m, F), F, "connect", NoValue,
             [name |-> target[1], address |-> target[2], mode |-> m])

Connect == ConnectTo(ConnectTargets)

\* connect called with an address and no name
ConnectByAddress == ConnectTo({<<NoName, a>> : a \in Addrs \cup {Unreachable}})

\* connect called with a name and no address
ConnectByName == ConnectTo({<<n, NoAddr>> : n \in Names})

Disconnect ==
    \E F \in FaultSets(DisconnectOps) :
        Call(disconnect(Self, F), F, "disconnect", NoValue, NoArgs)

Close == \E F \in FaultSets(CloseOps) : Call(close(Self, F), F, "close", NoValue, NoArgs)

\* the transport delivers the next notification to the callback
Receive ==
    /\ notifying # {}
    /\ sent < MaxSent
    /\ Commit([Self EXCEPT !.buffer = _receive(buffer, sent + 1),
                           !.sent = sent + 1,
                           !.received = received + 1],
              "receive", NoValue, NoArgs)

\* one more chunk returned when the call returned one
Count(n, value) == IF value = NoValue THEN n ELSE n + 1

Read ==
    LET r == read(buffer)
    IN  Commit([Self EXCEPT !.buffer = r.buffer,
                            !.returned = Count(returned, r.value)],
               "read", r.value, NoArgs)

Readline ==
    LET r == readline(buffer)
    IN  Commit([Self EXCEPT !.buffer = r.buffer,
                            !.returned = Count(returned, r.value)],
               "readline", r.value, NoArgs)

ResetInputBuffer ==
    Commit([Self EXCEPT !.buffer = reset_input_buffer(buffer),
                        !.received = 0,
                        !.returned = 0],
           "reset_input_buffer", NoValue, NoArgs)

\* read and readline as the two steps the interpreter runs them in, the
\* notification thread running between them: the test of the buffer, which
\* returns None when it is empty, ...
ReadTest(op) ==
    /\ pc = Idle
    /\ IF Truthy(buffer)
       THEN pc' = [at |-> op, saw |-> Len(buffer)] /\ UNCHANGED rest
       ELSE Commit(Self, op, NoValue, NoArgs)

\* ... and the pop, which returns the chunk
ReadPop(op) ==
    /\ pc.at = op
    /\ LET r == pop(buffer)
       IN  Commit([Self EXCEPT !.buffer = r.buffer,
                               !.returned = Count(returned, r.value),
                               !.exc = r.exc,
                               !.pc = Idle],
                  op, r.value, NoArgs)

ReadBegin == ReadTest("read")

ReadEnd == ReadPop("read")

ReadlineBegin == ReadTest("readline")

ReadlineEnd == ReadPop("readline")

InWaiting ==
    /\ pc = Idle
    /\ Commit(Self, "inWaiting", <<inWaiting(buffer)>>, NoArgs)

Next ==
    \/ Start
    \/ Stop
    \/ Scan
    \/ Connect
    \/ Disconnect
    \/ Close
    \/ Receive
    \/ Read
    \/ Readline
    \/ ResetInputBuffer

Spec == Init /\ [][Next]_vars

\* The lifecycle alone.  No lifecycle operation reads or writes the buffer,
\* and no buffer operation reads or writes anything else: the two halves
\* meet only where a notification needs a subscribed device.
NextLifecycle ==
    \/ Start
    \/ Stop
    \/ Scan
    \/ Connect
    \/ Disconnect
    \/ Close

SpecLifecycle == Init /\ [][NextLifecycle]_vars

\* The operations of the facade alone: the adapter is started and stopped
\* only by them.
NextFacade ==
    \/ Scan
    \/ Connect
    \/ Disconnect
    \/ Close

SpecFacade == Init /\ [][NextFacade]_vars

\* The buffer under the two threads: the control thread connects, asks
\* inWaiting and reads step by step, the transport's thread delivers
\* notifications at any point.  reset_input_buffer is not called.
NextThreads ==
    \/ ConnectByAddress
    \/ Receive
    \/ ReadBegin
    \/ ReadEnd
    \/ ReadlineBegin
    \/ ReadlineEnd
    \/ InWaiting

SpecThreads == Init /\ [][NextThreads]_vars

\* The buffer, with the connections that feed it opened by address.
NextBuffer ==
    \/ ConnectByAddress
    \/ Disconnect
    \/ Receive
    \/ Read
    \/ Readline
    \/ ResetInputBuffer

SpecBuffer == Init /\ [][NextBuffer]_vars

\* The lookup by name, over every list a scan may return.
InitLookup ==
    \E found \in ScanResults :
        /\ nearby = found
        /\ started = FALSE /\ connected = FALSE
        /\ subTX = FALSE /\ subRX = FALSE
        /\ devices = <<>> /\ chars = {} /\ device = NoAddr
        /\ buffer = <<>> /\ running = FALSE
        /\ links = {} /\ notifying = {} /\ sent = 0
        /\ received = 0 /\ returned = 0
        /\ lastOp = "init" /\ error = NoError /\ ret = NoValue
        /\ calls = {} /\ cold = {} /\ dialed = NoAddr /\ faults = {}
        /\ pc = Idle /\ args = NoArgs

NextLookup ==
    \/ ConnectByName
    \/ Close

SpecLookup == InitLookup /\ [][NextLookup]_vars

TypeOK ==
    /\ started \in BOOLEAN /\ connected \in BOOLEAN
    /\ subTX \in BOOLEAN /\ subRX \in BOOLEAN
    /\ devices \in {<<>>, nearby}
    /\ chars \subseteq {NUS_TX, NUS_RX, OtherChar}
    /\ device \in Addrs \cup {NoAddr}
    /\ buffer \in Seq(Chunks) /\ sent \in 0..MaxSent
    /\ received \in 0..MaxSent /\ returned \in 0..received
    /\ links \subseteq Addrs /\ notifying \subseteq links
    /\ calls \subseteq TransportOps /\ faults \subseteq calls
    /\ cold \subseteq calls
    /\ pc \in [at : {"idle", "read", "readline"}, saw : 0..MaxSent]

---------------------------------------------------------------------------
(* Properties *)

\* the last operation was a connect called with a name and no address
ByName == lastOp = "connect" /\ args.name # NoName /\ args.address = NoAddr

\* the last operation was a connect called with neither
ByNothing == lastOp = "connect" /\ args.name = NoName /\ args.address = NoAddr

\* the last operation was a connect in which a subscribe failed: after a
\* subscribe nothing else of connect can raise
SubscribeFailure ==
    /\ lastOp = "connect"
    /\ error # NoError
    /\ calls \cap {"subscribe_TX", "subscribe_RX"} # {}

\* the channel whose subscribe failed: RX is subscribed only after TX was
FailedChannel == IF "subscribe_RX" \in calls THEN NUS_RX ELSE NUS_TX

\* the last operation was a connect whose transport connect failed: after
\* one that succeeds, get_handle is the next call
ConnectFailure ==
    /\ lastOp = "connect"
    /\ "connect" \in calls
    /\ "get_handle" \notin calls

Elements(buf) == {buf[i] : i \in 1..Len(buf)}

\* the chunk of a non-empty buffer received first, and the one received last
Oldest(buf) == CHOOSE x \in Elements(buf) : \A y \in Elements(buf) : x <= y
Newest(buf) == CHOOSE x \in Elements(buf) : \A y \in Elements(buf) : x >= y

\* what is seen of the instance and of the transport between two calls
Observable ==
    <<started, connected, subTX, subRX, running, links, notifying>>

\* C1: a connect() with neither name nor address fails with InvalidArgument
\* and leaves the started flag and the transport adapter as they were.
C1_InvalidArgumentLeavesAdapter ==
    [][ByNothing' =>
           /\ error' = "InvalidArgument"
           /\ started' = started
           /\ running' = running]_vars

\* C2: when a subscribe fails during connect(), the error reaches the caller
\* with the channel marked unsubscribed, the connection marked disconnected,
\* the adapter marked stopped, the transport's stop() issued and the real
\* adapter no longer running.
C2_SubscribeFailureStopsAdapter ==
    SubscribeFailure =>
        /\ IF FailedChannel = NUS_TX THEN ~subTX ELSE ~subRX
        /\ ~connected
        /\ ~started
        /\ "stop" \in calls
        /\ ~running

\* C3 as claimed: read() removes and returns the chunk received last of those
\* in the buffer, and returns nothing and leaves an empty buffer as it is.
C3_ReadReturnsNewest ==
    [][lastOp' = "read" =>
           IF buffer = <<>>
           THEN ret' = NoValue /\ buffer' = buffer
           ELSE /\ ret' = <<Newest(buffer)>>
                /\ Elements(buffer') = Elements(buffer) \ {Newest(buffer)}
                /\ Len(buffer') = Len(buffer) - 1]_vars

\* C3 as amended: read() removes and returns the chunk received first of
\* those in the buffer (first in, first out), and returns nothing and leaves
\* an empty buffer as it is.
C3_ReadReturnsOldest ==
    [][lastOp' = "read" =>
           IF buffer = <<>>
           THEN ret' = NoValue /\ buffer' = buffer
           ELSE /\ ret' = <<Oldest(buffer)>>
                /\ Elements(buffer') = Elements(buffer) \ {Oldest(buffer)}
                /\ Len(buffer') = Len(buffer) - 1]_vars

\* a read has returned a chunk and left a later one in the buffer
C3_Witness ==
    /\ lastOp = "read"
    /\ ret # NoValue
    /\ buffer # <<>>
    /\ \A i \in 1..Len(buffer) : ret[1] < buffer[i]

\* C4 as claimed: right after a successful connect(mode="r"), whatever came
\* before it, inWaiting() is 0.
C4_ConnectLeavesNothingWaiting ==
    (lastOp = "connect" /\ error = NoError /\ args.mode = "r")
        => inWaiting(buffer) = 0

\* C4 as amended: right after a successful connect(mode="r"), inWaiting() is
\* what it was right before the call, the chunks waiting being the same: 0
\* when nothing was left unread, as on a new instance.
C4_ConnectKeepsWaiting ==
    [][(lastOp' = "connect" /\ error' = NoError /\ args'.mode = "r") =>
           /\ inWaiting(buffer') = inWaiting(buffer)
           /\ buffer' = buffer]_vars

\* a connect(mode="r") has succeeded with a chunk of an earlier connection
\* still unread
C4_Witness ==
    /\ lastOp = "connect"
    /\ error = NoError
    /\ args.mode = "r"
    /\ inWaiting(buffer) > 0

\* C5: close() returns normally, whichever transport calls raise.
C5_CloseNeverRaises == lastOp = "close" => error = NoError

\* C6: a stop() right after a stop() changes nothing that is seen of the
\* instance and of the transport and issues no transport stop or disconnect;
\* the same for disconnect() and for close().
C6_SecondCallChangesNothing ==
    [][\A op \in {"stop", "disconnect", "close"} :
           (lastOp = op /\ lastOp' = op) =>
               /\ Observable' = Observable
               /\ calls' \cap {"stop", "disconnect"} = {}]_vars

\* C7: a subscribe failure surfaces SubscriptionFailed when the channel is
\* among the characteristics of the connected device and ChannelUnavailable
\* when it is not, and no other error.
C7_DiagnosisFollowsDevice ==
    SubscribeFailure =>
        error = IF FailedChannel \in DeviceChars(device)
                THEN "SubscriptionFailed"
                ELSE "ChannelUnavailable"

\* C8: a connect() given only a name dials the address of the first element
\* of the device list whose name is that name.
C8_FirstMatchWins ==
    (ByName /\ dialed # NoAddr) =>
        \E i \in 1..Len(devices) :
            /\ devices[i].name = args.name
            /\ devices[i].address = dialed
            /\ \A j \in 1..(i - 1) : devices[j].name # args.name

\* a connect by name has dialed the first of two devices of that name
C8_Witness ==
    /\ ByName
    /\ Len(devices) = 2
    /\ devices[1].name = args.name
    /\ devices[2].name = args.name
    /\ devices[1].address # devices[2].address
    /\ dialed = devices[1].address

\* C9: a connect() given only a name that no scanned device has fails with
\* DeviceNotFound, issues no transport connect, and leaves the transport
\* adapter stopped and marked stopped.
C9_NotFoundStopsAdapter ==
    (/\ ByName
     /\ devices # <<>>
     /\ \A i \in 1..Len(devices) : devices[i].name # args.name) =>
        /\ error = "DeviceNotFound"
        /\ "connect" \notin calls
        /\ ~running
        /\ ~started

\* C10: when the transport connect fails, connect() surfaces
\* ConnectionFailed with the connection marked disconnected, the transport
\* adapter stopped and marked stopped, and no subscribe issued.
C10_ConnectFailureStopsAdapter ==
    ConnectFailure =>
        /\ error = "ConnectionFailed"
        /\ ~connected
        /\ ~running
        /\ ~started
        /\ calls \cap {"subscribe_TX", "subscribe_RX"} = {}

\* C11 as claimed: start() initializes the transport exactly when the adapter
\* is not marked started, and when the initialization raises, start() fails
\* with AdapterError and the adapter stays marked stopped.
C11_StartFailsWithAdapterError ==
    [][lastOp' = "start" =>
           /\ ("start" \in calls') <=> ~started
           /\ "start" \in faults' => (error' = "AdapterError" /\ ~started')]_vars

\* C11 as amended: start() initializes the transport exactly when the adapter
\* is not marked started; when the initialization raises, the failure is
\* logged and not raised, start() returns normally, the adapter stays marked
\* stopped and the transport is as it was; when it succeeds the adapter is
\* marked started and running.
C11_StartFailureIsSwallowed ==
    [][lastOp' = "start" =>
           /\ ("start" \in calls') <=> ~started
           /\ error' = NoError
           /\ "start" \in faults' => (~started' /\ running' = running)
           /\ "start" \in calls' \ faults' => (started' /\ running')
           /\ started => (started' /\ running' = running)]_vars

\* a start() whose transport initialization raised has returned
C11_Witness ==
    /\ lastOp = "start"
    /\ "start" \in faults
    /\ ~started

\* C12: once the cached device list is populated, no operation issues a
\* transport scan or changes the list, and every later scan() returns it.
C12_ScanCachedForever ==
    [][devices # <<>> =>
           /\ devices' = devices
           /\ "scan" \notin calls'
           /\ lastOp' = "scan" => (error' = NoError /\ ret' = devices)]_vars

\* a scan() has returned the cached list without asking the transport
C12_Witness ==
    /\ lastOp = "scan"
    /\ devices # <<>>
    /\ "scan" \notin calls
    /\ ret = devices

\* C13: after a successful connect(mode), whatever came before it, TX is
\* marked subscribed exactly when mode contains 'r' and RX exactly when mode
\* contains 'w'.
C13_SubscribedIsRequested ==
    (lastOp = "connect" /\ error = NoError) =>
        /\ subTX <=> HasR(args.mode)
        /\ subRX <=> HasW(args.mode)

\* the operations that take a chunk out of the buffer
Reads == {"read", "readline"}

\* C14: inWaiting() is the number of chunks received minus the number read()
\* and readline() returned since construction or the last
\* reset_input_buffer(); a receive raises it by one, a read or readline on a
\* non-empty buffer returns a chunk and lowers it by one, one on an empty
\* buffer returns nothing and leaves it 0, reset_input_buffer() sets it to 0,
\* and no other operation changes it.
C14_WaitingIsReceivedLessReturned ==
    [][/\ inWaiting(buffer') = received' - returned'
       /\ lastOp' = "receive" => inWaiting(buffer') = inWaiting(buffer) + 1
       /\ (lastOp' \in Reads /\ inWaiting(buffer) > 0) =>
              (ret' # NoValue /\ inWaiting(buffer') = inWaiting(buffer) - 1)
       /\ (lastOp' \in Reads /\ inWaiting(buffer) = 0) =>
              (ret' = NoValue /\ inWaiting(buffer') = 0)
       /\ lastOp' = "reset_input_buffer" => inWaiting(buffer') = 0
       /\ lastOp' \notin Reads \cup {"receive", "reset_input_buffer"} =>
              inWaiting(buffer') = inWaiting(buffer)]_vars

\* after a reset, two chunks were received and a readline returned one of
\* them
C14_Witness ==
    /\ lastOp = "readline"
    /\ sent > received
    /\ received = 2
    /\ returned = 1
    /\ inWaiting(buffer) = 1

\* the transport operations that need a started adapter
NeedsAdapter == TransportOps \ {"start", "stop"}

\* C15: scan, connect, get_handle, subscribe, unsubscribe,
\* discover_characteristics and disconnect are issued only while the
\* transport adapter is running: after a start() whose initialization failed,
\* scan() and connect() issue none of them.
C15_TransportNeedsStarted == cold \cap NeedsAdapter = {}

\* C16: a transport connect is issued only when no device connection opened
\* by an earlier connect() is still open at the transport.
C16_OneConnectionAtATime ==
    [][(lastOp' = "connect" /\ "connect" \in calls') => links = {}]_vars

\* the errors a diagnosis that consulted the cache ends in
Diagnoses == {"SubscriptionFailed", "ChannelUnavailable"}

\* C17: when the diagnosis of a subscribe failure consults the characteristic
\* cache, the cache holds the characteristics of the device connected now,
\* never a set discovered on an earlier connection.
C17_CacheIsOfConnectedDevice ==
    (lastOp = "connect" /\ error \in Diagnoses) => chars = DeviceChars(device)

\* C18: between two operations of the facade, also after one that raised,
\* an instance marked connected is marked started.
C18_ConnectedImpliesStarted == connected => started

\* C19: between two operations of the facade, a channel is marked subscribed
\* only on an instance marked connected: after disconnect(), a failed
\* connect() or a subscribe failure neither TX nor RX is marked subscribed.
C19_SubscribedImpliesConnected == (subTX \/ subRX) => connected

\* the control thread has left read or readline through its pop
Popped == pc # Idle /\ pc' = Idle

\* the control thread has left read or readline at its test
FoundEmpty == pc = Idle /\ pc' = Idle /\ lastOp' \in Reads

\* the transport's thread has delivered a notification
Delivered == sent' = sent + 1

\* C20: under every interleaving of the notification callback with read(),
\* readline() and inWaiting() of the control thread, with no
\* reset_input_buffer(): a read never raises; the chunk it returns was in the
\* buffer and is taken out of it, nothing else leaving; a read that returns
\* nothing found the buffer empty; a receive adds its chunk and nothing else;
\* no chunk is in the buffer twice; and the buffer holds as many chunks as
\* were received and not returned.
C20_NoChunkLostOrDuplicated ==
    [][/\ error' # "IndexError"
       /\ Cardinality(Elements(buffer')) = Len(buffer')
       /\ Len(buffer') = received' - returned'
       /\ Popped =>
              /\ ret' # NoValue
              /\ ret'[1] \in Elements(buffer)
              /\ Elements(buffer') = Elements(buffer) \ {ret'[1]}
       /\ FoundEmpty => (ret' = NoValue /\ buffer = <<>> /\ buffer' = <<>>)
       /\ Delivered =>
              /\ sent' \notin Elements(buffer)
              /\ Elements(buffer') = Elements(buffer) \cup {sent'}
       /\ (~Popped /\ ~Delivered) => buffer' = buffer]_vars

\* a notification was delivered while the control thread was between the
\* test and the pop of a read
C20_Witness ==
    /\ pc.at = "read"
    /\ lastOp = "receive"
    /\ Len(buffer) > pc.saw

====
